---- MODULE Spec2Model ----
(***************************************************************************)
(* Model of src/app.py, the VAPI transfer-call webhook service.            *)
(*                                                                         *)
(* The module body of app.py runs once at import (API key from the         *)
(* environment, company directory from company_directory.json); after     *)
(* that Flask serves POST /webhook, each request passing first through     *)
(* require_api_key's decorated_function and then, if admitted, through     *)
(* webhook().  Requests are served by independent threads, so the guard    *)
(* and the handler body of different requests interleave.                  *)
(*                                                                         *)
(* Python values are modelled as strings, None by the reserved value None; *)
(* a JSON object by a record whose absent keys hold None (dict.get).       *)
(* The log holds the entries app.py itself writes with logging.*; the      *)
(* framework's own access log is not modelled.                             *)
(***************************************************************************)
EXTENDS Integers, Sequences, FiniteSets, TLC

\* Bounds of the model.
MaxRequests == 2
MaxEntries == 2

Reqs == 1..MaxRequests

\* Python's None (also what dict.get and headers.get return for an absent key).
None == "<None>"

\* Truthiness of a str-or-None value: None and "" are falsy.
Truthy(v) == v # None /\ v # ""

\* str(v) as an f-string formats it.
Str(v) == IF v = None THEN "None" ELSE v

\* The default of os.getenv('FLASK_API_KEY', ...).
DEFAULT_API_KEY == "your-development-api-key-change-this"

\* os.getenv(name, default): the variable's value when set (also when set to
\* the empty string), the default when unset.
getenv(value, default) == IF value = None THEN default ELSE value

(***************************************************************************)
(* Inputs.                                                                 *)
(***************************************************************************)
\* Values FLASK_API_KEY can have in the environment: unset, empty, a key.
EnvValues == {None, "", "k1"}

\* Values the X-API-Key header can have: absent, empty, a key.
HeaderValues == {None, "", "k1"}

\* request.remote_addr.
Addrs == {"10.0.0.1", "10.0.0.2"}

\* Request bodies, sent as application/json: a valid document and a
\* truncated one.
Bodies == {"{}", "{"}

\* Entries of the employees list, each a JSON object with a name: with a
\* phone, with an empty phone, with no phone key.
Entries ==
    { [name |-> "Alice", phone |-> "+15551111111"],
      [name |-> "Bob",   phone |-> "+15552222222"],
      [name |-> "Carol", phone |-> ""],
      [name |-> "Dave",  phone |-> None] }

EntryLists == UNION { [1..n -> Entries] : n \in 0..MaxEntries }

\* What open('company_directory.json') and json.load can meet.
\*   kind: "missing"    - no such file (FileNotFoundError)
\*         "unreadable" - the file exists but cannot be opened (PermissionError)
\*         "malformed"  - not JSON (json.JSONDecodeError)
\*         "json"       - a JSON document: top is "object" or "array";
\*                        employees is "absent", "null" or "list" (items)
File(kind, top, employees, items) ==
    [kind |-> kind, top |-> top, employees |-> employees, items |-> items]

Files ==
    { File("missing", "", "", <<>>),
      File("unreadable", "", "", <<>>),
      File("malformed", "", "", <<>>),
      File("json", "array", "", <<>>),
      File("json", "object", "absent", <<>>),
      File("json", "object", "null", <<>>) }
    \cup { File("json", "object", "list", l) : l \in EntryLists }

VARIABLES
    phase,      \* "init" before the module body ran, then "serving" or "crashed"
    env,        \* FLASK_API_KEY in the environment
    file,       \* company_directory.json
    API_KEY,    \* the module global API_KEY
    directory,  \* the module global directory
    req,        \* per request: pc and what the HTTP layer delivered
    resp,       \* per request: the response returned to the caller
    ran,        \* per request: the parts of webhook()'s body that ran
    log         \* app.log, the entries written by app.py

vars == <<phase, env, file, API_KEY, directory, req, resp, ran, log>>

(***************************************************************************)
(* Log entries and responses.                                              *)
(***************************************************************************)
Entry(level, message) == [level |-> level, message |-> message]

NoRequest == [pc |-> "none", key |-> None, body |-> "", addr |-> ""]

NoResponse == [status |-> 0, kind |-> "none", actions |-> <<>>, error |-> ""]

\* jsonify(list): a JSON array body, status 200.
jsonify_actions(actions) ==
    [status |-> 200, kind |-> "json_array", actions |-> actions, error |-> ""]

\* jsonify({"error": ...}), code: a JSON object body.
jsonify_error(error, code) ==
    [status |-> code, kind |-> "json_object", actions |-> <<>>, error |-> error]

\* The framework's answer to an HTTPException raised inside the view: its
\* status and an HTML error page.
http_exception(code) ==
    [status |-> code, kind |-> "html", actions |-> <<>>, error |-> ""]

(***************************************************************************)
(* Module body: API key and directory load.                                *)
(***************************************************************************)
\* The exception the try block raises, "" when it raises none.
LoadException(f) ==
    CASE f.kind = "missing" -> "FileNotFoundError"
      [] f.kind = "unreadable" -> "PermissionError"
      [] f.kind = "malformed" -> "JSONDecodeError"
      [] f.kind = "json" /\ f.top # "object" -> "AttributeError"
      [] f.kind = "json" /\ f.top = "object" /\ f.employees = "null" -> "TypeError"
      [] OTHER -> ""

\* The except clauses of the try block.
Caught(exc) == exc \in {"FileNotFoundError", "JSONDecodeError"}

\* directory_data.get('employees', []).
LoadedDirectory(f) == IF f.employees = "list" THEN f.items ELSE <<>>

LoadLog(f) ==
    CASE LoadException(f) = "" ->
            <<Entry("INFO", "Loaded " \o ToString(Len(LoadedDirectory(f)))
                            \o " employees from directory")>>
      [] LoadException(f) = "FileNotFoundError" ->
            <<Entry("ERROR", "Company directory file not found")>>
      [] LoadException(f) = "JSONDecodeError" ->
            <<Entry("ERROR", "Invalid JSON in company directory file")>>
      [] OTHER -> <<>>

\* The module body up to the route definitions: lines 38 to 64.
Startup ==
    /\ phase = "init"
    /\ API_KEY' = getenv(env, DEFAULT_API_KEY)
    /\ log' = log \o LoadLog(file)
    /\ IF LoadException(file) = ""
       THEN directory' = LoadedDirectory(file) /\ phase' = "serving"
       ELSE IF Caught(LoadException(file))
            THEN directory' = <<>> /\ phase' = "serving"
            ELSE directory' = directory /\ phase' = "crashed"
    /\ UNCHANGED <<env, file, req, resp, ran>>

Init ==
    /\ phase = "init"
    /\ env \in EnvValues
    /\ file \in Files
    /\ API_KEY = None
    /\ directory = <<>>
    /\ req = [r \in Reqs |-> NoRequest]
    /\ resp = [r \in Reqs |-> NoResponse]
    /\ ran = [r \in Reqs |-> {}]
    /\ log = <<>>

(***************************************************************************)
(* Access guard: require_api_key.                                          *)
(***************************************************************************)
\* Mutant of Rejects: "if provided_key and provided_key != API_KEY", which
\* lets a request without the header through.
RejectsOnlyWrongKey(provided_key, api_key) ==
    Truthy(provided_key) /\ provided_key # api_key

\* Mutant of Rejects: "if provided_key != API_KEY", the bare comparison.
RejectsBareComparison(provided_key, api_key) ==
    provided_key # api_key

\* The condition of line 45: not provided_key or provided_key != API_KEY.
Rejects(provided_key, api_key) ==
    (~Truthy(provided_key)) \/ provided_key # api_key

\* Mutant of UnauthorizedLog: the rejection is not logged.
UnauthorizedLogDropped(remote_addr) == <<>>

\* logging.warning of line 46.
UnauthorizedLog(remote_addr) ==
    <<Entry("WARNING", "Unauthorized access attempt from " \o remote_addr)>>

\* decorated_function up to its return or its call of f: the HTTP layer
\* delivers request r with header X-API-Key = key (None when absent).
decorated_function(r, key, body, addr) ==
    /\ phase = "serving"
    /\ req[r].pc = "none"
    /\ r > 1 => req[r - 1].pc # "none"
    /\ IF Rejects(key, API_KEY)
       THEN /\ log' = log \o UnauthorizedLog(addr)
            /\ resp' = [resp EXCEPT ![r] = jsonify_error("Unauthorized", 401)]
            /\ req' = [req EXCEPT ![r] =
                         [pc |-> "done", key |-> key, body |-> body, addr |-> addr]]
       ELSE /\ req' = [req EXCEPT ![r] =
                         [pc |-> "admitted", key |-> key, body |-> body, addr |-> addr]]
            /\ UNCHANGED <<log, resp>>
    /\ UNCHANGED <<phase, env, file, API_KEY, directory, ran>>

(***************************************************************************)
(* Call router: webhook.                                                   *)
(***************************************************************************)
\* Bodies json.loads accepts.
ValidJson == {"{}"}

\* request.get_json() on an application/json request: the parsed document, or
\* BadRequest (400) raised by on_json_loading_failed.
get_json(body) ==
    IF body \in ValidJson THEN [ok |-> TRUE, data |-> body]
                          ELSE [ok |-> FALSE, data |-> ""]

\* Mutant of TargetEmployee: directory[-1].
TargetEmployeeLast(d) == d[Len(d)]

\* directory[0].
TargetEmployee(d) == d[1]

\* target_number after lines 112 to 117.
TargetNumber(d) == IF Len(d) > 0 THEN TargetEmployee(d).phone ELSE None

\* target_name after lines 113 to 117.
TargetName(d) == IF Len(d) > 0 THEN TargetEmployee(d).name ELSE None

\* Mutant of HasTarget: "if target_number is not None".
HasTargetNotNone(target_number) == target_number # None

\* The condition of line 123: if target_number.
HasTarget(target_number) == Truthy(target_number)

Talk(text) == [action |-> "talk", text |-> text]

Connect(number) ==
    [action |-> "connect", endpoint |-> <<[type |-> "phone", number |-> number]>>]

\* The actions list built by lines 123 to 145.
Actions(target_number, target_name) ==
    IF HasTarget(target_number)
    THEN << Talk("Connecting you to our representative, " \o Str(target_name) \o "."),
            Connect(target_number) >>
    ELSE << Talk("No employees are available to take your call at this time.") >>

\* repr of one action, as the f-string of line 148 prints it.
ReprAction(a) ==
    IF a.action = "talk"
    THEN "{'action': 'talk', 'text': '" \o a.text \o "'}"
    ELSE "{'action': 'connect', 'endpoint': [{'type': 'phone', 'number': '"
         \o a.endpoint[1].number \o "'}]}"

Repr(actions) ==
    IF Len(actions) = 1 THEN "[" \o ReprAction(actions[1]) \o "]"
    ELSE "[" \o ReprAction(actions[1]) \o ", " \o ReprAction(actions[2]) \o "]"

\* The log entries of lines 103, 118 or 120, and 148.
WebhookLog(data, d) ==
    << Entry("INFO", "Incoming call webhook data: " \o data),
       IF Len(d) > 0
       THEN Entry("INFO", "Routing call to: " \o Str(TargetName(d))
                          \o " (" \o Str(TargetNumber(d)) \o ")")
       ELSE Entry("WARNING", "No available employees found in directory"),
       Entry("INFO", "Responding with actions: "
                     \o Repr(Actions(TargetNumber(d), TargetName(d)))) >>

\* What the body of webhook() does for the admitted request r, the module
\* globals aside.
Handle(r) ==
    /\ phase = "serving"
    /\ req[r].pc = "admitted"
    /\ req' = [req EXCEPT ![r].pc = "done"]
    /\ LET got == get_json(req[r].body) IN
       IF ~got.ok
       THEN /\ resp' = [resp EXCEPT ![r] = http_exception(400)]
            /\ ran' = [ran EXCEPT ![r] = {"get_json"}]
            /\ log' = log
       ELSE /\ resp' = [resp EXCEPT ![r] =
                          jsonify_actions(Actions(TargetNumber(directory),
                                                  TargetName(directory)))]
            /\ ran' = [ran EXCEPT ![r] = {"get_json", "directory", "actions"}]
            /\ log' = log \o WebhookLog(got.data, directory)
    /\ UNCHANGED <<phase, env, file>>

\* Mutant of webhook: the handler takes its target with directory.pop(0).
webhookPopsDirectory(r) ==
    /\ Handle(r)
    /\ directory' = IF Len(directory) > 0 /\ get_json(req[r].body).ok
                    THEN Tail(directory) ELSE directory
    /\ UNCHANGED API_KEY

\* webhook(): lines 102 to 149.  It reads API_KEY and directory and assigns
\* neither.
webhook(r) ==
    /\ Handle(r)
    /\ UNCHANGED <<API_KEY, directory>>

Next ==
    \/ Startup
    \/ \E r \in Reqs, key \in HeaderValues, body \in Bodies, addr \in Addrs :
          decorated_function(r, key, body, addr)
    \/ \E r \in Reqs : webhook(r)

Spec == Init /\ [][Next]_vars

(***************************************************************************)
(* Properties.                                                             *)
(***************************************************************************)
\* Request r has been answered.
Done(r) == req[r].pc = "done"

\* Request r carried a non-empty X-API-Key equal to the configured key.
Authenticated(r) == Truthy(req[r].key) /\ req[r].key = API_KEY

\* The guard let request r through to webhook().
Admitted(r) ==
    req[r].pc = "admitted" \/ (req[r].pc = "done" /\ resp[r].status # 401)

ConnectingText(name) == "Connecting you to our representative, " \o name \o "."

UnavailableText == "No employees are available to take your call at this time."

IsTalk(a) == DOMAIN a = {"action", "text"} /\ a.action = "talk"

IsConnect(a) ==
    /\ DOMAIN a = {"action", "endpoint"}
    /\ a.action = "connect"
    /\ Len(a.endpoint) = 1
    /\ DOMAIN a.endpoint[1] = {"type", "number"}
    /\ a.endpoint[1].type = "phone"

\* The body is a JSON array of talk and connect actions.
WellFormed(response) ==
    /\ response.kind = "json_array"
    /\ \A i \in DOMAIN response.actions :
          IsTalk(response.actions[i]) \/ IsConnect(response.actions[i])

\* The numbers of the connect actions of a response.
ConnectNumbers(response) ==
    { response.actions[i].endpoint[1].number :
        i \in { j \in DOMAIN response.actions :
                  response.actions[j].action = "connect" } }

\* C1: every answered request that carried the configured API key (here
\* already for a non-empty key) has status 200, whatever its body and
\* whatever the loaded directory.
C1_AuthenticatedAlways200 ==
    \A r \in Reqs : Done(r) /\ Authenticated(r) => resp[r].status = 200

\* C2: a request whose X-API-Key is absent or differs from the configured key
\* is answered 401 {"error": "Unauthorized"} whatever its body, and no part
\* of webhook() runs for it: no get_json, no directory lookup, no actions.
C2_GuardTotalAndFirst ==
    \A r \in Reqs :
        req[r].pc # "none" /\ (req[r].key = None \/ req[r].key # API_KEY) =>
            /\ Done(r)
            /\ resp[r] = [status |-> 401, kind |-> "json_object",
                          actions |-> <<>>, error |-> "Unauthorized"]
            /\ ran[r] = {}

\* Witness of C2: a request without the header and one with a wrong key, one
\* with a valid and one with a malformed body, both answered 401.
C2_Witness ==
    \E r1, r2 \in Reqs :
        /\ req[r1].key = None /\ req[r1].body \in ValidJson
        /\ Truthy(req[r2].key) /\ req[r2].key # API_KEY /\ req[r2].body \notin ValidJson
        /\ resp[r1].status = 401 /\ resp[r2].status = 401

\* C3 as claimed: for every provided credential, the empty string included,
\* the guard admits the request iff the credential equals the configured key.
C3_AdmitsIffEqual ==
    \A r \in Reqs :
        req[r].pc # "none" /\ req[r].key # None =>
            (Admitted(r) <=> req[r].key = API_KEY)

\* C3 as amended: the guard admits a request iff its credential is present,
\* non-empty and equal to the configured key.
C3_AdmitsIffNonEmptyAndEqual ==
    \A r \in Reqs :
        req[r].pc # "none" =>
            (Admitted(r) <=> (req[r].key # None /\ req[r].key # ""
                              /\ req[r].key = API_KEY))

\* Witness of C3: with an empty configured key, an empty credential and a
\* non-empty one were both rejected.
C3_Witness ==
    /\ \E r \in Reqs : req[r].key = "" /\ API_KEY = "" /\ resp[r].status = 401
    /\ \E r \in Reqs : req[r].key = "k1" /\ API_KEY = "" /\ resp[r].status = 401

C5_EmptyDirectorySingleTalk ==
    \A r \in Reqs :
        Done(r) /\ Authenticated(r) /\ directory = <<>> =>
            /\ resp[r].status = 200
            /\ resp[r].actions = << Talk(UnavailableText) >>

\* C6: every connect action of every response carries a non-empty phone
\* number that is the phone of a directory entry.
C6_ConnectHasDirectoryPhone ==
    \A r \in Reqs :
        \A n \in ConnectNumbers(resp[r]) :
            /\ n # None /\ n # ""
            /\ \E i \in DOMAIN directory : directory[i].phone = n

\* Witness of C6: a connect action was returned from a directory that also
\* holds an entry without a phone.
C6_Witness ==
    \E r \in Reqs :
        /\ ConnectNumbers(resp[r]) # {}
        /\ \E i \in DOMAIN directory : ~Truthy(directory[i].phone)

\* The directory source could not be read or parsed into the expected shape.
LoadFailure(f) ==
    \/ f.kind \in {"missing", "unreadable", "malformed"}
    \/ f.kind = "json" /\ f.top # "object"
    \/ f.kind = "json" /\ f.top = "object" /\ f.employees = "null"

\* C7: after the module body ran on a directory source that cannot be read
\* or parsed, the service is serving with an empty directory, and every
\* script it returns is the no-availability talk.
C7_LoadFailureLeavesEmptyDirectory ==
    phase # "init" /\ LoadFailure(file) =>
        /\ phase = "serving"
        /\ directory = <<>>
        /\ \A r \in Reqs :
              resp[r].kind = "json_array" =>
                  resp[r].actions = << Talk(UnavailableText) >>

\* C8 (here already for requests that carried the configured key): every
\* response is a JSON array of talk and connect actions.
C8_ResponsesMatchSchema ==
    \A r \in Reqs : Done(r) /\ Authenticated(r) => WellFormed(resp[r])

\* Two answered requests with the same credential and body have the same
\* response.
SameRequestSameResponse ==
    \A r1, r2 \in Reqs :
        Done(r1) /\ Done(r2) /\ req[r1].key = req[r2].key
        /\ req[r1].body = req[r2].body =>
            resp[r1] = resp[r2]

\* C9: once the service is serving, no step changes directory or API_KEY, and
\* any two answered requests with the same credential and body have identical
\* status and body, in every interleaving.
C9_StatelessIdempotent ==
    /\ [][phase = "serving" => directory' = directory /\ API_KEY' = API_KEY]_vars
    /\ []SameRequestSameResponse

\* Witness of C9: two requests with the same credential and body were both
\* routed to a directory entry.
C9_Witness ==
    \E r1, r2 \in Reqs :
        /\ r1 # r2 /\ Done(r1) /\ Done(r2)
        /\ req[r1].key = req[r2].key /\ req[r1].body = req[r2].body
        /\ Len(resp[r1].actions) = 2 /\ Len(resp[r2].actions) = 2

\* The unauthorized-access entries of the log for origin address a.
UnauthorizedEntries(a) ==
    { i \in DOMAIN log :
        /\ log[i].level = "WARNING"
        /\ log[i].message = "Unauthorized access attempt from " \o a }

\* C10: for every origin address the log holds exactly one unauthorized-access
\* warning per request from it that was answered 401, present as soon as the
\* 401 is, and none for the requests the guard admitted.
C10_RejectionsAudited ==
    \A a \in Addrs :
        Cardinality(UnauthorizedEntries(a)) =
            Cardinality({ r \in Reqs : resp[r].status = 401 /\ req[r].addr = a })

\* Witness of C10: one request was rejected and another, from another
\* address, was admitted and answered.
C10_Witness ==
    \E r1, r2 \in Reqs :
        /\ resp[r1].status = 401
        /\ Done(r2) /\ Admitted(r2) /\ req[r2].addr # req[r1].addr
        /\ Cardinality(UnauthorizedEntries(req[r1].addr)) = 1
        /\ UnauthorizedEntries(req[r2].addr) = {}
====
